---- MODULE Spec2Model ----
(***************************************************************************)
(* Model of bot/mybot.js: a webhook-driven deploy bot.                     *)
(*                                                                         *)
(*   on_registry_event   registry webhook: filters the pushed events and   *)
(*                       starts one Telegram prompt per valid event        *)
(*   on_telegram_event   Telegram webhook: answers the callback, checks    *)
(*                       the sender, hands the payload to do_deploy        *)
(*   do_deploy           decodes the payload, defers the deploy sequence   *)
(*                       with setImmediate, guards it with on_progres      *)
(*                                                                         *)
(* Node runs every callback to completion: an action of this model is the  *)
(* code between two suspension points (an await on I/O, a setImmediate).   *)
(***************************************************************************)
EXTENDS Integers, Sequences, FiniteSets, TLC

\* ----- bounds of the model -----

\* inbound requests on the Telegram webhook and on unmatched paths per run
MaxRequests == 3
\* events in one registry payload
MaxEvents == 2

Requests == 1..MaxRequests

\* ----- configuration and literals of the source -----

REGISTRY_PATH == "/a0362dc339959f93451937ae76b5e7e6/registry"
TELEGRAM_PATH == "/a0362dc339959f93451937ae76b5e7e6/telegram"
OTHER_PATH == "/favicon.ico"
APPROVER == "kurnia_d_win"
MANIFEST_V2 == "application/vnd.docker.distribution.manifest.v2+json"
APP_NAME == "myapp"
IMAGE_PREFIX == "registry.demo-docker.kurniadwin.to/myapp:"
NETWORK == "net0"

\* ----- JavaScript values that the JSON bodies can carry -----

\* a property that is absent reads as undefined
UNDEFINED == "<undefined>"
\* JSON null
NULL == "<null>"
\* an object that has no primitive value, such as {"toString": 1}:
\* converting it to a string throws a TypeError
NOPRIM == "<object>"

\* `${v}`: does the conversion throw
TemplateThrows(v) == v = NOPRIM

\* `${v}`: the string it yields when it does not throw
TemplateString(v) == IF v = UNDEFINED THEN "undefined" ELSE v

\* ----- outbound calls: the status code decides the result -----

\* 0 stands for a transport error (the request's 'error' event)
TRANSPORT_ERROR == 0
StatusCodes == {TRANSPORT_ERROR, 200, 204, 304, 404, 409, 500}

InSuccessRange(code) == 200 <= code /\ code < 300

\* the result of an operation that tolerates no status: "ok" or "throw"
Strict(code) ==
    IF code = TRANSPORT_ERROR THEN "throw"
    ELSE IF ~InSuccessRange(code) THEN "throw"
    ELSE "ok"

\* the result of an operation that maps one status to false
Tolerant(code, tolerated) ==
    IF code = TRANSPORT_ERROR THEN "throw"
    ELSE IF code = tolerated THEN "false"
    ELSE IF ~InSuccessRange(code) THEN "throw"
    ELSE "true"

create_container(code) == Strict(code)
start_container(code) == Tolerant(code, 304)
stop_container(code) == Tolerant(code, 304)
kill_container(code) == Tolerant(code, 409)
\* a removal without the tolerated status
remove_container_strict(code) == IF Strict(code) = "ok" THEN "true" ELSE "throw"
remove_container(code) == Tolerant(code, 404)
pull_image(code) == Strict(code)
send_telegram_msg(code) == Strict(code)
answer_telegram_callback(code) == Strict(code)

\* ----- the Telegram webhook's inbound bodies -----

NoCallback == [present |-> FALSE, id |-> UNDEFINED, username |-> UNDEFINED, data |-> UNDEFINED]

\* message.chat.username of a callback is the approver's or somebody else's
\* name, unless the callback has no message/chat object at all
NOCHAT == "<no message.chat>"

\* callback_query.data: the text a button carries
DATA_DEPLOY_V1 == "{\"command\":\"deploy\",\"tag\":\"v1\"}"
DATA_DEPLOY_V2 == "{\"command\":\"deploy\",\"tag\":\"v2\"}"
DATA_DEPLOY_OBJECT == "{\"command\":\"deploy\",\"tag\":{\"toString\":1}}"
DATA_RESTART == "{\"command\":\"restart\",\"tag\":\"v1\"}"
DATA_NULL == "null"
DATA_TEXT == "deploy v1"
CallbackData ==
    {DATA_DEPLOY_V2, DATA_DEPLOY_OBJECT, DATA_RESTART, DATA_NULL, DATA_TEXT}

\* JSON.parse on the texts above: does it throw, and the value it yields
\* (as the fields do_deploy reads: is it null, its command, its tag)
JSON_parse(text) ==
    CASE text = DATA_DEPLOY_V1 ->
            [throws |-> FALSE, isNull |-> FALSE, command |-> "deploy", tag |-> "v1"]
      [] text = DATA_DEPLOY_V2 ->
            [throws |-> FALSE, isNull |-> FALSE, command |-> "deploy", tag |-> "v2"]
      [] text = DATA_DEPLOY_OBJECT ->
            [throws |-> FALSE, isNull |-> FALSE, command |-> "deploy", tag |-> NOPRIM]
      [] text = DATA_RESTART ->
            [throws |-> FALSE, isNull |-> FALSE, command |-> "restart", tag |-> "v1"]
      [] text = DATA_NULL ->
            [throws |-> FALSE, isNull |-> TRUE, command |-> UNDEFINED, tag |-> UNDEFINED]
      [] OTHER ->
            [throws |-> TRUE, isNull |-> FALSE, command |-> UNDEFINED, tag |-> UNDEFINED]

\* the callbacks a request can carry, as << username, data >>: the approver
\* with every data, somebody else with the data that would matter if the
\* sender check let it through, a callback without message/chat
Callbacks ==
    ({APPROVER} \X CallbackData)
    \cup ({"mallory"} \X {DATA_DEPLOY_V2, DATA_DEPLOY_OBJECT, DATA_NULL})
    \cup ({NOCHAT} \X {DATA_DEPLOY_V2})

\* what the body of a Telegram webhook request can be
TelegramBodies ==
    { [kind |-> k, callback_query |-> NoCallback] :
        k \in {"stream_error", "not_json", "json_null", "no_callback"} }
    \cup
    { [kind |-> "callback",
       callback_query |-> [present |-> TRUE, id |-> "cb", username |-> c[1], data |-> c[2]]] :
        c \in Callbacks }

\* lines 269-272: data = JSON.parse(await read_all(req)).callback_query,
\* with every exception swallowed (data stays null)
ParseCallback(body) ==
    IF body.kind = "callback" THEN body.callback_query ELSE NoCallback

\* ----- do_deploy: decoding the payload (lines 287-293) -----

\* the payload after the try/catch around JSON.parse: a text that does not
\* parse becomes the empty object
DecodePayload(text) ==
    LET p == JSON_parse(text) IN
    IF p.throws
    THEN [isNull |-> FALSE, command |-> UNDEFINED, tag |-> UNDEFINED]
    ELSE [isNull |-> p.isNull, command |-> p.command, tag |-> p.tag]

\* the synchronous part of do_deploy: reading payload.command of null throws,
\* another command returns, a deploy command schedules the sequence (the
\* mistaken variant first: it does not look at the command)
do_deploy_any(text) ==
    LET payload == DecodePayload(text) IN
    IF payload.isNull THEN [result |-> "throw", command |-> UNDEFINED, tag |-> UNDEFINED]
    ELSE [result |-> "setImmediate", command |-> payload.command, tag |-> payload.tag]
do_deploy(text) ==
    LET payload == DecodePayload(text) IN
    IF payload.isNull THEN [result |-> "throw", command |-> UNDEFINED, tag |-> UNDEFINED]
    ELSE IF payload.command /= "deploy"
    THEN [result |-> "return", command |-> payload.command, tag |-> UNDEFINED]
    ELSE [result |-> "setImmediate", command |-> payload.command, tag |-> payload.tag]

\* ----- the deploy sequence (lines 296-310) -----

\* line 298
ImageOf(tag) == IMAGE_PREFIX \o TemplateString(tag)

\* a sequence that reports the deploy before it starts the container
DeployCallsEarly(tag) ==
    << [fn |-> "send_telegram_msg", args |-> << "Deploying: " \o TemplateString(tag) >>],
       [fn |-> "pull_image", args |-> << ImageOf(tag) >>],
       [fn |-> "remove_container", args |-> << APP_NAME >>],
       [fn |-> "create_container", args |-> << APP_NAME, ImageOf(tag), NETWORK >>],
       [fn |-> "send_telegram_msg", args |-> << "Deployed: " \o TemplateString(tag) >>],
       [fn |-> "start_container", args |-> << APP_NAME >>] >>
\* the outbound calls of a sequence, in the order of lines 304-309
DeployCalls(tag) ==
    << [fn |-> "send_telegram_msg", args |-> << "Deploying: " \o TemplateString(tag) >>],
       [fn |-> "pull_image", args |-> << ImageOf(tag) >>],
       [fn |-> "remove_container", args |-> << APP_NAME >>],
       [fn |-> "create_container", args |-> << APP_NAME, ImageOf(tag), NETWORK >>],
       [fn |-> "start_container", args |-> << APP_NAME >>],
       [fn |-> "send_telegram_msg", args |-> << "Deployed: " \o TemplateString(tag) >>] >>

NumSteps == Len(DeployCalls("v1"))

\* how the awaited call of step k ends for a status code: "throw" rejects
\* the await, anything else resumes the sequence
StepResult(k, code) ==
    CASE k = 1 -> send_telegram_msg(code)
      [] k = 2 -> pull_image(code)
      [] k = 3 -> remove_container(code)
      [] k = 4 -> create_container(code)
      [] k = 5 -> start_container(code)
      [] OTHER -> send_telegram_msg(code)

\* a sequence that leaves out a statement
StepSkipping(k) == IF k + 2 <= NumSteps THEN k + 2 ELSE k + 1

\* the step issued once step k has resumed (the next statement)
StepAfter(k) == k + 1

\* a catch that starts the container again
CatchRestarting(calls) ==
    Append(calls, [fn |-> "start_container", args |-> << APP_NAME >>])
\* lines 312-315: the calls a task has issued once its catch has run (it
\* logs and clears the guard, and issues nothing)
CatchCalls(calls) == calls

\* line 300: the guard as the sequence's check reads it
GuardBusy(g) == g

\* a catch that leaves the guard as it is
GuardKept(g) == g

\* line 303, line 310, line 314: the values the guard is given
GuardAcquired == TRUE
GuardAfterSuccess(g) == FALSE
GuardAfterError(g) == FALSE

\* ----- on_telegram_event (lines 268-283) -----

\* an answer call kept for the approver's callbacks
HasApproverCallback(data) == data.present /\ data.username = APPROVER

\* line 273: if (data)
HasCallback(data) == data.present

\* an answer call whose failure is not waited for
AnswerIgnored(answer) == FALSE
\* line 274: the awaited answer call rejects, and the handler with it
AnswerRejects(answer) == answer = "throw"

\* line 275: reading data.message.chat.username throws without message/chat
SenderThrows(data) == data.username = NOCHAT

\* a sender check that lets everybody through
AnySender(data) == FALSE

\* line 275: data.message.chat.username != 'kurnia_d_win'
WrongSender(data) == data.username /= APPROVER

\* ----- on_registry_event: the inbound events (lines 242-252) -----

\* repository given as the array ["myapp"]: == 'myapp' holds for it by
\* conversion, typeof does not say 'string'
REPO_ARRAY == "<[myapp]>"

LooseEquals(v, string) == v = string \/ (v = REPO_ARRAY /\ string = APP_NAME)
TypeofString(v) == v \notin {UNDEFINED, NULL, NOPRIM, REPO_ARRAY}

\* tags a registry event can carry: strings, none, or an object
RegistryTags == {"v1", "v2", UNDEFINED, NOPRIM}

\* a well-formed push event of the application
PushOf(tag) ==
    [shape |-> "object", action |-> "push", mediaType |-> MANIFEST_V2,
     repository |-> APP_NAME, tag |-> tag]

\* the events of a payload: the application's pushes, and events that differ
\* from one in one respect: null instead of an object, no target, another
\* action, another media type, another repository, the repository as array
Events ==
    { PushOf(tag) : tag \in RegistryTags }
    \cup { [PushOf("v1") EXCEPT !.shape = "null"],
           [PushOf("v1") EXCEPT !.shape = "no_target"],
           [PushOf("v1") EXCEPT !.action = "pull"],
           [PushOf("v1") EXCEPT !.mediaType = "application/octet-stream"],
           [PushOf("v1") EXCEPT !.repository = "otherapp"],
           [PushOf("v1") EXCEPT !.repository = REPO_ARRAY] }

Batches == UNION { [1..n -> Events] : n \in 0..MaxEvents }

\* what the body of a registry webhook request can be: no body (the stream
\* fails), text that is no JSON, JSON null, an object without events, events
\* that are no array, or a batch of events
RegistryBodies ==
    { [kind |-> k, events |-> << >>] :
        k \in {"stream_error", "not_json", "json_null", "no_events", "events_not_array"} }
    \cup { [kind |-> "events", events |-> b] : b \in Batches }

\* line 243: JSON.parse(await read_all(req)).events.filter throws unless the
\* body is an object whose events are an array
BodyThrows(body) == body.kind /= "events"

\* the filter's conjunction without the typeof test
PushCheckedLoosely(ev) ==
    IF ev.shape = "null" THEN FALSE
    ELSE IF ~LooseEquals(ev.action, "push") THEN FALSE
    ELSE IF ev.shape = "no_target" THEN FALSE
    ELSE /\ LooseEquals(ev.mediaType, MANIFEST_V2)
         /\ LooseEquals(ev.repository, APP_NAME)

\* lines 244-251: the filter's predicate; reading a field of null or of a
\* missing target throws, and the catch answers false
PushChecked(ev) ==
    IF ev.shape = "null" THEN FALSE
    ELSE IF ~LooseEquals(ev.action, "push") THEN FALSE
    ELSE IF ev.shape = "no_target" THEN FALSE
    ELSE /\ LooseEquals(ev.mediaType, MANIFEST_V2)
         /\ LooseEquals(ev.repository, APP_NAME)
         /\ TypeofString(ev.repository)

\* line 243: Array.prototype.filter, in input order
RECURSIVE FilterEvents(_)
FilterEvents(events) ==
    IF events = << >> THEN << >>
    ELSE IF PushChecked(Head(events))
         THEN << Head(events) >> \o FilterEvents(Tail(events))
         ELSE FilterEvents(Tail(events))

\* ----- send_telegram_msg and the prompt (lines 184-196, 254-263) -----

Truthy(v) == v \notin {UNDEFINED, NULL, ""}

\* lines 185-196: the message as posted, with the inline keyboard's buttons
TelegramPayload(msg, command, data) ==
    [text |-> msg,
     inline_keyboard |->
        IF Truthy(command) /\ Truthy(data)
        THEN << [text |-> command, callback_data |-> data] >>
        ELSE << >>]

\* line 259: JSON.stringify({ command: 'deploy', tag: tag }); a tag that is
\* undefined is left out (the tags of this model need no escaping)
StringifyDeploy(tag) ==
    IF tag = UNDEFINED THEN "{\"command\":\"deploy\"}"
    ELSE IF tag = NOPRIM THEN DATA_DEPLOY_OBJECT
    ELSE "{\"command\":\"deploy\",\"tag\":\"" \o tag \o "\"}"

\* lines 256-260: the prompt for the i-th filtered event
PromptOf(data, i) ==
    TelegramPayload("New image pushed: " \o TemplateString(data[i].tag), "Deploy",
                    StringifyDeploy(data[i].tag))

\* lines 254-255: the loop stops at the first event whose tag cannot be put
\* into the log line; the number of events it gets through
Prompted(data) ==
    IF \E i \in 1..Len(data) : TemplateThrows(data[i].tag)
    THEN (CHOOSE i \in 1..Len(data) :
            /\ TemplateThrows(data[i].tag)
            /\ \A j \in 1..(i - 1) : ~TemplateThrows(data[j].tag)) - 1
    ELSE Len(data)

\* ----- the deploy command as JSON text, character by character -----
\* (line 259 encodes it with JSON.stringify, line 289 decodes it with
\* JSON.parse; a character is a one-character string or one of the names
\* below, a string is a sequence of characters)

MaxTagLen == 3

QUOTE == "\""
BACKSLASH == "\\"
LF == "<LF>"          \* the line feed, a control character
NON_ASCII == "<U+00E9>" \* a character outside ASCII
NO_VALUE == << UNDEFINED >>  \* a property the object does not have

\* the characters a tag is made of here: a letter, the letter of the \n
\* escape, the two characters JSON escapes in every string, the separators
\* of JSON members, a control character, a character outside ASCII
TagChars == {"a", "n", QUOTE, BACKSLASH, ",", ":", LF, NON_ASCII}

RECURSIVE StringsUpTo(_)
StringsUpTo(n) ==
    IF n = 0 THEN {<< >>}
    ELSE LET shorter == StringsUpTo(n - 1) IN
         shorter \cup {Append(s, c) : s \in shorter, c \in TagChars}
TagStrings == StringsUpTo(MaxTagLen)

COMMAND_KEY == << "c", "o", "m", "m", "a", "n", "d" >>
DEPLOY_VALUE == << "d", "e", "p", "l", "o", "y" >>
TAG_KEY == << "t", "a", "g" >>

\* a mistaken encoder: every character is written as it is
EscapeNothing(c) == << c >>
\* JSON.stringify's quoting of one character of a string
EscapeChar(c) ==
    CASE c = QUOTE -> << BACKSLASH, QUOTE >>
      [] c = BACKSLASH -> << BACKSLASH, BACKSLASH >>
      [] c = LF -> << BACKSLASH, "n" >>
      [] OTHER -> << c >>

RECURSIVE EscapeAll(_)
EscapeAll(s) == IF s = << >> THEN << >> ELSE EscapeChar(Head(s)) \o EscapeAll(Tail(s))
QuoteJSONString(s) == << QUOTE >> \o EscapeAll(s) \o << QUOTE >>

\* line 259: JSON.stringify({ command: 'deploy', tag: tag }) for a string tag
StringifyChars(tag) ==
    << "{" >> \o QuoteJSONString(COMMAND_KEY) \o << ":" >> \o QuoteJSONString(DEPLOY_VALUE)
    \o << "," >> \o QuoteJSONString(TAG_KEY) \o << ":" >> \o QuoteJSONString(tag)
    \o << "}" >>

\* JSON.parse on such texts: a string literal starting at position i (the
\* characters up to the closing quote, escapes undone; a control character
\* or an unknown escape is a syntax error), then an object whose members
\* are strings (a later member replaces an earlier one of the same key).
\* Other JSON values cannot be written with the characters used here.
SyntaxError == [ok |-> FALSE, value |-> << >>, next |-> 0]
RECURSIVE ParseStringBody(_, _, _)
ParseStringBody(text, i, acc) ==
    IF i > Len(text) THEN SyntaxError
    ELSE IF text[i] = QUOTE THEN [ok |-> TRUE, value |-> acc, next |-> i + 1]
    ELSE IF text[i] = LF THEN SyntaxError
    ELSE IF text[i] = BACKSLASH
    THEN IF i + 1 > Len(text) THEN SyntaxError
         ELSE IF text[i + 1] \in {QUOTE, BACKSLASH}
         THEN ParseStringBody(text, i + 2, Append(acc, text[i + 1]))
         ELSE IF text[i + 1] = "n" THEN ParseStringBody(text, i + 2, Append(acc, LF))
         ELSE SyntaxError
    ELSE ParseStringBody(text, i + 1, Append(acc, text[i]))
ParseString(text, i) ==
    IF i <= Len(text) /\ text[i] = QUOTE THEN ParseStringBody(text, i + 1, << >>)
    ELSE SyntaxError

NoObject == [throws |-> TRUE, command |-> NO_VALUE, tag |-> NO_VALUE]
EmptyObject == [throws |-> FALSE, command |-> NO_VALUE, tag |-> NO_VALUE]
WithMember(obj, key, value) ==
    IF key = COMMAND_KEY THEN [obj EXCEPT !.command = value]
    ELSE IF key = TAG_KEY THEN [obj EXCEPT !.tag = value]
    ELSE obj
RECURSIVE ParseMembers(_, _, _)
ParseMembers(text, i, obj) ==
    LET key == ParseString(text, i) IN
    IF ~key.ok \/ key.next > Len(text) \/ text[key.next] /= ":" THEN NoObject
    ELSE LET value == ParseString(text, key.next + 1) IN
         IF ~value.ok \/ value.next > Len(text) THEN NoObject
         ELSE IF text[value.next] = "," 
         THEN ParseMembers(text, value.next + 1, WithMember(obj, key.value, value.value))
         ELSE IF text[value.next] = "}" /\ value.next = Len(text)
         THEN WithMember(obj, key.value, value.value)
         ELSE NoObject
ParseChars(text) ==
    IF Len(text) < 2 \/ text[1] /= "{" THEN NoObject
    ELSE IF text = << "{", "}" >> THEN EmptyObject
    ELSE ParseMembers(text, 2, EmptyObject)

\* lines 288-296: the payload do_deploy works with (the empty object when
\* the text does not parse), as the command and the tag it reads from it
DecodeChars(text) ==
    LET parsed == ParseChars(text) IN
    [command |-> IF parsed.throws THEN NO_VALUE ELSE parsed.command,
     tag |-> IF parsed.throws THEN NO_VALUE ELSE parsed.tag]

\* ----- state -----

VARIABLES
    on_progres,   \* line 285: the guard
    req,          \* the inbound requests: where the handler stands, its local
                  \* data (gone when it ends), the response, and what the body
                  \* held (callback, sender)
    answered,     \* answerCallbackQuery calls issued, per request
    task,         \* the deploy task a request scheduled (do_deploy's closure
                  \* over the payload), with the outcome of the answer call
                  \* its handler had awaited and the number of its calls that
                  \* returned without failure
    immediates,   \* the setImmediate queue, oldest first
    issued,       \* the outbound calls a task has issued, in order
    outstanding,  \* the steps of a task whose call has not completed
    returned,     \* how the call a task completed last ended
    registry,     \* the registry webhook's request: its body, the filtered
                  \* events, the response
    notified,     \* the prompts its handler has started, and how they ended
    codec         \* a tag, the text line 259 encodes it to, and the payload
                  \* lines 288-296 decode from that text

telegramVars == << on_progres, req, answered, task, immediates, issued, outstanding, returned >>
registryVars == << registry, notified >>
codecVars == << codec >>
vars == << telegramVars, registryVars, codecVars >>

NoRequest ==
    [url |-> "", pc |-> "none", res |-> "", data |-> NoCallback,
     callback |-> FALSE, sender |-> UNDEFINED]

\* a request on the Telegram webhook before its handler has acted: what its
\* body held is kept for the properties below
TelegramArrival(data) ==
    [NoRequest EXCEPT !.url = TELEGRAM_PATH,
                      !.callback = data.present,
                      !.sender = data.username]
NoTask ==
    [pc |-> "none", answer |-> "none", command |-> UNDEFINED, tag |-> UNDEFINED,
     step |-> 0, completed |-> 0]
NoRegistry ==
    [url |-> "", pc |-> "none", res |-> "", body |-> [kind |-> "", events |-> << >>],
     data |-> << >>]

NoCodec == [pc |-> "none", tag |-> << >>, text |-> << >>, payload |-> DecodeChars(<< >>)]

Init ==
    /\ on_progres = FALSE
    /\ req = [r \in Requests |-> NoRequest]
    /\ answered = [r \in Requests |-> 0]
    /\ task = [r \in Requests |-> NoTask]
    /\ immediates = << >>
    /\ issued = [r \in Requests |-> << >>]
    /\ outstanding = [r \in Requests |-> {}]
    /\ returned = [r \in Requests |-> "none"]
    /\ registry = NoRegistry
    /\ notified = << >>
    /\ codec = NoCodec

\* requests arrive in the order of their numbers
Arrived(r) == req[r].pc /= "none"
NextToArrive(r) == ~Arrived(r) /\ \A q \in Requests : q < r => Arrived(q)

\* lines 236-239: an error reaching the request handler destroys the socket
Destroyed(rq) == [rq EXCEPT !.pc = "end", !.res = "destroyed", !.data = NoCallback]
\* res.end('OK')
Ended(rq) == [rq EXCEPT !.pc = "end", !.res = "OK", !.data = NoCallback]

\* a handler that answers only once the sequence it scheduled has ended
AwaitingSequence(rq) == rq
\* lines 278 and 282: do_deploy has returned (setImmediate has queued the
\* sequence, nothing of it has run) and the handler answers OK
AfterDoDeploy(rq) == Ended(rq)

\* lines 231-235: a request on any other path is answered 404
NotFound(r) ==
    /\ NextToArrive(r)
    /\ req' = [req EXCEPT ![r] =
                 [NoRequest EXCEPT !.url = OTHER_PATH, !.pc = "end", !.res = "404 Not Found"]]
    /\ UNCHANGED << on_progres, answered, task, immediates, issued, outstanding, returned, registryVars, codecVars >>

\* lines 224-230, 269-274 and 282: a request on the Telegram webhook, once
\* its body has been read (the handler touches nothing shared before that);
\* without callback the handler answers OK, with one it issues the answer
\* call and awaits it
TelegramRequest(r) ==
    /\ NextToArrive(r)
    /\ \E data \in {ParseCallback(body) : body \in TelegramBodies} :
         IF HasCallback(data)
         THEN /\ req' = [req EXCEPT ![r] =
                           [TelegramArrival(data) EXCEPT !.pc = "answer_telegram_callback",
                                                         !.data = data]]
              /\ answered' = [answered EXCEPT ![r] = @ + 1]
         ELSE /\ req' = [req EXCEPT ![r] = Ended(TelegramArrival(data))]
              /\ UNCHANGED answered
    /\ UNCHANGED << on_progres, task, immediates, issued, outstanding, returned, registryVars, codecVars >>

\* lines 274-282: the answer call has completed; the handler checks the
\* sender and calls do_deploy, which may schedule the sequence
TelegramAnswered(r) ==
    /\ req[r].pc = "answer_telegram_callback"
    /\ \E answer \in {answer_telegram_callback(code) : code \in StatusCodes} :
         LET data == req[r].data
             d == do_deploy(data.data)
         IN
         IF AnswerRejects(answer) \/ SenderThrows(data)
         THEN /\ req' = [req EXCEPT ![r] = Destroyed(@)]
              /\ UNCHANGED << task, immediates >>
         ELSE IF WrongSender(data)
         THEN /\ req' = [req EXCEPT ![r] = Ended(@)]
              /\ UNCHANGED << task, immediates >>
         ELSE IF d.result = "throw"
         THEN /\ req' = [req EXCEPT ![r] = Destroyed(@)]
              /\ UNCHANGED << task, immediates >>
         ELSE IF d.result = "return"
         THEN /\ req' = [req EXCEPT ![r] = AfterDoDeploy(@)]
              /\ UNCHANGED << task, immediates >>
         ELSE /\ req' = [req EXCEPT ![r] = AfterDoDeploy(@)]
              /\ task' = [task EXCEPT ![r] = [NoTask EXCEPT !.pc = "setImmediate", !.answer = answer,
                                                       !.command = d.command, !.tag = d.tag]]
              /\ immediates' = Append(immediates, r)
    /\ UNCHANGED << on_progres, answered, issued, outstanding, returned, registryVars, codecVars >>

\* lines 294-304 and 312-315: the oldest setImmediate callback runs up to
\* its first await. Building the image name throws for a tag without a
\* primitive value, and the catch clears the guard; a busy guard makes the
\* task give up; otherwise the task takes the guard and issues step 1
Immediate(r) ==
    /\ immediates /= << >>
    /\ Head(immediates) = r
    /\ immediates' = Tail(immediates)
    /\ IF TemplateThrows(task[r].tag)
       THEN /\ on_progres' = GuardAfterError(on_progres)
            /\ task' = [task EXCEPT ![r].pc = "error"]
            /\ issued' = [issued EXCEPT ![r] = CatchCalls(@)]
            /\ UNCHANGED outstanding
       ELSE IF GuardBusy(on_progres)
       THEN /\ task' = [task EXCEPT ![r].pc = "ignored"]
            /\ UNCHANGED << on_progres, issued, outstanding >>
       ELSE /\ on_progres' = GuardAcquired
            /\ task' = [task EXCEPT ![r].pc = "await", ![r].step = 1]
            /\ issued' = [issued EXCEPT ![r] = Append(@, DeployCalls(task[r].tag)[1])]
            /\ outstanding' = [outstanding EXCEPT ![r] = @ \cup {1}]
    /\ UNCHANGED << req, answered, returned, registryVars, codecVars >>

\* lines 304-315: the awaited call of a step completes; a failure rejects
\* the sequence and the catch clears the guard, a success issues the next
\* step or, after the last one, clears the guard
StepDone(r) ==
    /\ task[r].pc = "await"
    /\ \E result \in {StepResult(task[r].step, code) : code \in StatusCodes} :
         LET k == task[r].step IN
         /\ returned' = [returned EXCEPT ![r] = result]
         /\ IF result = "throw"
            THEN /\ on_progres' = GuardAfterError(on_progres)
                 /\ task' = [task EXCEPT ![r].pc = "error"]
                 /\ outstanding' = [outstanding EXCEPT ![r] = @ \ {k}]
                 /\ issued' = [issued EXCEPT ![r] = CatchCalls(@)]
            ELSE IF k = NumSteps
            THEN /\ on_progres' = GuardAfterSuccess(on_progres)
                 /\ task' = [task EXCEPT ![r].pc = "done", ![r].completed = @ + 1]
                 /\ outstanding' = [outstanding EXCEPT ![r] = @ \ {k}]
                 /\ UNCHANGED issued
            ELSE /\ task' = [task EXCEPT ![r].step = StepAfter(k), ![r].completed = @ + 1]
                 /\ issued' = [issued EXCEPT ![r] = Append(@, DeployCalls(task[r].tag)[StepAfter(k)])]
                 /\ outstanding' = [outstanding EXCEPT ![r] = (@ \ {k}) \cup {StepAfter(k)}]
                 /\ UNCHANGED on_progres
    /\ UNCHANGED << req, answered, immediates, registryVars, codecVars >>

\* lines 224-228 and 242-266: the request on the registry webhook, once its
\* body has been read. The handler filters the events and, for each one in
\* turn, logs it and starts a prompt without awaiting it, then answers OK;
\* an exception (line 243, line 255) ends it at the request handler's catch
RegistryRequest ==
    /\ registry.pc = "none"
    /\ \E body \in RegistryBodies :
         IF BodyThrows(body)
         THEN /\ registry' = [url |-> REGISTRY_PATH, pc |-> "end", res |-> "destroyed",
                              body |-> body, data |-> << >>]
              /\ UNCHANGED notified
         ELSE LET data == FilterEvents(body.events)
                  n == Prompted(data)
              IN
              /\ notified' = [i \in 1..n |-> [payload |-> PromptOf(data, i), state |-> "pending"]]
              /\ registry' = [url |-> REGISTRY_PATH,
                              pc |-> "end",
                              res |-> IF n < Len(data) THEN "destroyed" ELSE "OK",
                              body |-> body,
                              data |-> data]
    /\ UNCHANGED << telegramVars, codecVars >>

\* a mistaken handler: the failure of a send reaches the request handler
ResponseFailedBySend(rq, result) ==
    IF result = "throw" THEN [rq EXCEPT !.res = "destroyed"] ELSE rq
\* lines 260-262: the catch attached to a prompt's send logs the error;
\* whatever the outcome, the request and its response stay as they are
ResponseAfterSend(rq, result) == rq

\* lines 198-205 and 260-262: the send of a prompt completes; a failure is
\* caught and logged
NotifyDone(i) ==
    /\ i \in 1..Len(notified)
    /\ notified[i].state = "pending"
    /\ \E result \in {send_telegram_msg(code) : code \in StatusCodes} :
         /\ notified' = [notified EXCEPT ![i].state = IF result = "throw" THEN "failed" ELSE "sent"]
         /\ registry' = ResponseAfterSend(registry, result)
    /\ UNCHANGED << telegramVars, codecVars >>

\* line 259: the registry handler encodes the deploy command of a pushed tag
\* into the button of its prompt
Encode ==
    /\ codec.pc = "none"
    /\ \E tag \in TagStrings :
         codec' = [codec EXCEPT !.pc = "encoded", !.tag = tag, !.text = StringifyChars(tag)]
    /\ UNCHANGED << telegramVars, registryVars >>

\* lines 288-296: do_deploy decodes the text the button carried
Decode ==
    /\ codec.pc = "encoded"
    /\ codec' = [codec EXCEPT !.pc = "decoded", !.payload = DecodeChars(codec.text)]
    /\ UNCHANGED << telegramVars, registryVars >>

Next ==
    \/ \E r \in Requests : TelegramRequest(r)
    \/ \E r \in Requests : NotFound(r)
    \/ \E r \in Requests : TelegramAnswered(r)
    \/ \E r \in Requests : Immediate(r)
    \/ \E r \in Requests : StepDone(r)

Spec == Init /\ [][Next]_vars

\* the registry webhook on its own: its handler shares no state with the
\* other handlers
NextRegistry ==
    \/ RegistryRequest
    \/ \E i \in 1..MaxEvents : NotifyDone(i)

SpecRegistry == Init /\ [][NextRegistry]_vars

\* the encoding and decoding of the deploy command on their own
NextCodec ==
    \/ Encode
    \/ Decode

SpecCodec == Init /\ [][NextCodec]_vars

\* the server with the traffic of one webhook per run: registry events
\* alone, or Telegram requests alone
NoRegistryTraffic == registry.pc = "none"
NoTelegramTraffic == \A r \in Requests : ~Arrived(r)
NextServer ==
    \/ \E r \in Requests : NoRegistryTraffic /\ TelegramRequest(r)
    \/ \E r \in Requests : NoRegistryTraffic /\ NotFound(r)
    \/ \E r \in Requests : NoRegistryTraffic /\ TelegramAnswered(r)
    \/ \E r \in Requests : NoRegistryTraffic /\ Immediate(r)
    \/ \E r \in Requests : NoRegistryTraffic /\ StepDone(r)
    \/ NoTelegramTraffic /\ RegistryRequest
    \/ \E i \in 1..MaxEvents : NoTelegramTraffic /\ NotifyDone(i)

SpecServer == Init /\ [][NextServer]_vars

\* the Telegram webhook when every outbound call completes (with a status
\* or a transport error) and every queued setImmediate callback is run
Fairness ==
    \A r \in Requests :
        /\ WF_vars(TelegramAnswered(r))
        /\ WF_vars(Immediate(r))
        /\ WF_vars(StepDone(r))

SpecLive == Init /\ [][Next]_vars /\ Fairness

\* ===== properties of the Telegram webhook and the orchestrator =====

\* a task is in flight from the step that takes the guard to the step that
\* ends its sequence
InFlight(r) == task[r].pc = "await"

\* a callback whose sender is not the approver
Unauthorized(r) == req[r].callback /\ req[r].sender /= APPROVER

\* the setImmediate callback of task r runs in this step
Runs(r) == task[r].pc = "setImmediate" /\ task'[r].pc /= "setImmediate"

\* C1: under every interleaving of approved deploy callbacks and call
\* completions, at most one deploy sequence is in flight at any time.
C1_AtMostOneSequenceInFlight ==
    Cardinality({r \in Requests : InFlight(r)}) <= 1

\* C2: a deploy request whose task runs while a deploy is in progress is
\* discarded: it issues no call then or later, and the guard stays true.
C2_DiscardedWhileDeploying ==
    [][\A r \in Requests :
         /\ (Runs(r) /\ on_progres) =>
                /\ task'[r].pc = "ignored"
                /\ issued'[r] = << >>
                /\ on_progres'
         /\ task[r].pc = "ignored" =>
                /\ task'[r] = task[r]
                /\ issued'[r] = << >>
                /\ outstanding'[r] = {}]_vars

\* C3: when a deploy sequence ends, by success or by the failure of any
\* step, the guard is false, and a valid deploy request whose task runs with
\* the guard false is accepted: it takes the guard and issues step 1.
C3_GuardReleasedAndNextAccepted ==
    [][\A r \in Requests :
         /\ (InFlight(r) /\ ~InFlight(r)') =>
                /\ task'[r].pc \in {"done", "error"}
                /\ ~on_progres'
         /\ (Runs(r) /\ ~on_progres /\ ~TemplateThrows(task[r].tag)) =>
                /\ InFlight(r)'
                /\ on_progres'
                /\ issued'[r] = << DeployCalls(task[r].tag)[1] >>]_vars

\* a sequence failed at create, and a later request's sequence was accepted
\* and succeeded, and a third one is running (no malformed tag involved)
C3_Witness ==
    /\ \A r \in Requests : task[r].tag /= NOPRIM
    /\ \E r, q, p \in Requests :
         /\ task[r].pc = "error" /\ task[r].step = 4
         /\ task[q].pc = "done"
         /\ InFlight(p)

\* C4: the calls of one sequence are issued in the order of DeployCalls (a
\* task starts with none issued, and every call it issues is the next one of
\* that order), each one only in the step in which the previous one has
\* completed without failure, never two outstanding at once, and none after
\* a failed step.
C4_StrictOrder ==
    [][\A r \in Requests :
         /\ Cardinality(outstanding'[r]) <= 1
         /\ issued'[r] /= issued[r] =>
                LET k == Len(issued[r]) + 1 IN
                /\ k <= NumSteps
                /\ issued'[r] = Append(issued[r], DeployCalls(task'[r].tag)[k])
                /\ outstanding[r] = IF k = 1 THEN {} ELSE {k - 1}
                /\ outstanding'[r] = {k}
                /\ k > 1 => returned'[r] \in {"ok", "true", "false"}
         /\ returned'[r] = "throw" =>
                /\ issued'[r] = issued[r]
                /\ outstanding'[r] = {}]_vars

\* one sequence has issued all its calls and ended, another one failed at
\* its third call and stopped there
C4_Witness ==
    \E r, q \in Requests :
        /\ task[r].pc = "done" /\ issued[r] = DeployCalls("v2")
        /\ task[q].pc = "error" /\ Len(issued[q]) = 3 /\ returned[q] = "throw"

C6_AnsweredExactlyOnce ==
    \A r \in Requests :
        req[r].url = TELEGRAM_PATH =>
            answered[r] = IF req[r].callback THEN 1 ELSE 0

\* handled to the end: a callback of somebody else, the approver's callback
\* that scheduled a deploy, and a request without callback
C6_Witness ==
    \E r, q, p \in Requests :
        /\ req[r].pc = "end" /\ req[r].sender = "mallory" /\ answered[r] = 1
        /\ req[q].pc = "end" /\ task[q].pc /= "none" /\ answered[q] = 1
        /\ req[p].pc = "end" /\ req[p].url = TELEGRAM_PATH /\ ~req[p].callback
        /\ answered[p] = 0

\* C7: the Telegram webhook always responds OK, for every body and every
\* outcome of the answer call; the connection is never destroyed.
C7_TelegramAlwaysOK ==
    \A r \in Requests :
        (req[r].url = TELEGRAM_PATH /\ req[r].pc = "end") => req[r].res = "OK"

\* the call of a task that is outstanding
Outstanding(r) == issued[r][Len(issued[r])]

\* C13: for the outstanding pull, remove, create or start of a sequence,
\* status 404 on remove and status 304 on start give the result false, a
\* status in [200,300) gives a result that is no failure, and every other
\* status, or none at all, is a failure; a task whose last result is false
\* has gone on to its next call, a task whose last result is a failure has
\* ended with nothing issued after the call that failed.
C13_ToleratedStatuses ==
    \A r \in Requests :
        /\ (InFlight(r) /\ task[r].step \in 2..5) =>
              LET fn == Outstanding(r).fn IN
              /\ fn \in {"pull_image", "remove_container", "create_container", "start_container"}
              /\ \A code \in StatusCodes :
                   LET result == StepResult(task[r].step, code) IN
                   IF (fn = "remove_container" /\ code = 404)
                      \/ (fn = "start_container" /\ code = 304)
                   THEN result = "false"
                   ELSE IF 200 <= code /\ code < 300
                   THEN result \in {"ok", "true"}
                   ELSE result = "throw"
        /\ returned[r] = "false" =>
              /\ InFlight(r)
              /\ Len(issued[r]) = task[r].step
              /\ task[r].completed = task[r].step - 1
              /\ issued[r][task[r].step - 1].fn \in {"remove_container", "start_container"}
        /\ returned[r] = "throw" =>
              /\ task[r].pc = "error"
              /\ Len(issued[r]) = task[r].completed + 1

\* a sequence is awaiting its last call after its start returned false; an
\* earlier one ended when its removal failed
C13_Witness ==
    \E r, q \in Requests :
        /\ InFlight(r) /\ task[r].step = NumSteps /\ returned[r] = "false"
        /\ task[q].pc = "error" /\ task[q].step = 3 /\ returned[q] = "throw"

\* the payload of a callback is no deploy command: it does not parse, or
\* what it parses to has another command or none
NoDeployCommand(text) ==
    JSON_parse(text).throws \/ JSON_parse(text).command /= "deploy"

\* C14: for an approver's callback whose payload is no deploy command, the
\* handler, once the answer call has returned, ends with the response OK
\* (no error reaches the request handler), without a task and with the
\* guard as it was: as long as the answer call is awaited, that end is
\* possible.
C14_NonDeployIsNoOp ==
    \A r \in Requests :
        (/\ req[r].pc = "answer_telegram_callback"
         /\ req[r].data.username = APPROVER
         /\ NoDeployCommand(req[r].data.data)) =>
            ENABLED (/\ TelegramAnswered(r)
                     /\ req'[r].res = "OK"
                     /\ task'[r] = NoTask
                     /\ on_progres' = on_progres)

\* C15: the answer call of a callback is issued before the handler looks at
\* the sender (while it is awaited the request has no outcome and no task),
\* and a request has a task, and so outbound calls of a sequence, only if
\* its answer call has returned a status in [200,300).
C15_AnsweredBeforeDeploy ==
    \A r \in Requests :
        /\ req[r].pc = "answer_telegram_callback" =>
              /\ answered[r] = 1
              /\ req[r].res = ""
              /\ task[r] = NoTask
        /\ (task[r] /= NoTask \/ issued[r] /= << >>) =>
              /\ answered[r] = 1
              /\ task[r].answer = "ok"
              /\ req[r].pc = "end"

\* the approver's callback whose handler was ended by an error has no task;
\* another one, answered, has a sequence in flight; a third is awaiting its
\* answer
C15_Witness ==
    \E r, q, p \in Requests :
        /\ req[r].sender = APPROVER /\ req[r].res = "destroyed" /\ task[r] = NoTask
        /\ task[q].answer = "ok" /\ InFlight(q) /\ task[q].step > 1
        /\ req[p].pc = "answer_telegram_callback" /\ req[p].data.username = APPROVER

\* the runtime calls a sequence for a tag makes before it reports success
RuntimeCalls(tag) ==
    << [fn |-> "pull_image", args |-> << IMAGE_PREFIX \o tag >>],
       [fn |-> "remove_container", args |-> << APP_NAME >>],
       [fn |-> "create_container", args |-> << APP_NAME, IMAGE_PREFIX \o tag, NETWORK >>],
       [fn |-> "start_container", args |-> << APP_NAME >>] >>

\* C16: the only messages a task sends are 'Deploying: T' and 'Deployed: T'
\* for its tag T; 'Deployed: T' is the last call it issues, right after the
\* pull, remove, create and start for T, all of which have returned without
\* failure; a task that failed has issued nothing after the call that
\* failed (no 'Deployed' for a failed step, no message about the failure);
\* the messages of the registry handler are prompts, each with its button.
C16_DeployedOnlyAfterAllSteps ==
    /\ \A i \in 1..Len(notified) : Len(notified[i].payload.inline_keyboard) = 1
    /\ \A r \in Requests :
         LET T == TemplateString(task[r].tag)
             n == Len(issued[r])
         IN
         /\ \A i \in 1..n :
              issued[r][i].fn = "send_telegram_msg" =>
                  /\ issued[r][i].args \in {<< "Deploying: " \o T >>, << "Deployed: " \o T >>}
                  /\ issued[r][i].args = << "Deployed: " \o T >> =>
                        /\ i = n
                        /\ i > Len(RuntimeCalls(T))
                        /\ SubSeq(issued[r], i - Len(RuntimeCalls(T)), i - 1) = RuntimeCalls(T)
                        /\ task[r].completed >= i - 1
         /\ task[r].pc = "error" => n <= task[r].completed + 1

\* one sequence has ended with 'Deployed' sent, another one failed at its
\* start and has sent 'Deploying' only
C16_Witness ==
    \E r, q \in Requests :
        /\ task[r].pc = "done" /\ task[r].completed = NumSteps
        /\ issued[r][NumSteps].args = << "Deployed: v2" >>
        /\ task[q].pc = "error" /\ returned[q] = "throw"
        /\ issued[q][Len(issued[q])].fn = "start_container"

\* C17: a sequence that failed at create or start has issued nothing after
\* the call that failed, at any later time (no remove, create or start to
\* put the previous container back); the create and start calls that exist
\* are those a sequence issued, once each, in its own order, after its own
\* remove returned.
C17_NoRollback ==
    \A r \in Requests :
        /\ (task[r].pc = "error" /\ task[r].completed >= 3) =>
              /\ Len(issued[r]) = task[r].completed + 1
              /\ outstanding[r] = {}
        /\ \A i \in 1..Len(issued[r]) :
              issued[r][i].fn \in {"create_container", "start_container"} =>
                  /\ i = IF issued[r][i].fn = "create_container" THEN 4 ELSE 5
                  /\ issued[r][3].fn = "remove_container"
                  /\ task[r].completed >= i - 1

\* a sequence failed at create after its remove returned and has stopped
\* there; a later sequence has reached its start
C17_Witness ==
    \E r, q \in Requests :
        /\ r < q
        /\ task[r].pc = "error" /\ task[r].completed = 3
        /\ issued[r][Len(issued[r])].fn = "create_container"
        /\ InFlight(q) /\ issued[q][Len(issued[q])].fn = "start_container"

\* C18, first half: when every outbound call completes, a guard that is
\* true is false again later.
C18_EventuallyIdle == on_progres ~> ~on_progres

\* C18, second half: nothing but the end of the sequence releases the
\* guard, so as long as a sequence is in flight (its outstanding call has
\* not completed) the guard is true and later deploy requests are discarded.
C18_GuardHeldWhileInFlight ==
    \A r \in Requests : InFlight(r) => on_progres

C20_AnsweredBeforeSequence ==
    \A r \in Requests :
        task[r] /= NoTask =>
            /\ req[r].pc = "end"
            /\ req[r].res = "OK"
            /\ task[r].pc = "setImmediate" =>
                  /\ issued[r] = << >>
                  /\ outstanding[r] = {}
                  /\ \E i \in 1..Len(immediates) : immediates[i] = r

\* three answered requests: the task of one is queued and has not run, the
\* sequence of another has failed, that of the third has ended
C20_Witness ==
    \E r, q, p \in Requests :
        /\ task[r].pc = "setImmediate" /\ req[r].res = "OK"
        /\ task[q].pc = "error" /\ task[q].step > 0 /\ req[q].res = "OK"
        /\ task[p].pc = "done" /\ req[p].res = "OK"

\* ===== properties of the registry webhook =====

\* the validity of a push event as the data model states it
IsPushEvent(ev) ==
    /\ ev.shape = "object"
    /\ ev.action = "push"
    /\ ev.mediaType = MANIFEST_V2
    /\ ev.repository = APP_NAME

Handled == registry.pc = "end" /\ registry.body.kind = "events"

\* C8: the registry webhook always responds OK, whatever the payload:
\* malformed inbound JSON never surfaces to the response.
C8_RegistryAlwaysOK ==
    registry.pc = "end" => registry.res = "OK"

C10_OnePromptPerValidEvent ==
    Handled =>
        LET valid == SelectSeq(registry.body.events, IsPushEvent) IN
        /\ Len(notified) = Len(valid)
        /\ \A i \in 1..Len(notified) :
             /\ notified[i].payload.text = "New image pushed: " \o TemplateString(valid[i].tag)
             /\ notified[i].payload.inline_keyboard =
                    << [text |-> "Deploy", callback_data |-> StringifyDeploy(valid[i].tag)] >>

\* C12: the outcome of a prompt's send, failure included, changes neither
\* the response of the registry webhook nor any other prompt; the handler
\* answers OK in the step that starts the prompts, one per valid event,
\* while every send is still outstanding.
C12_SendFailureOnlyReported ==
    [][/\ \A i \in 1..Len(notified) :
            (notified[i].state = "pending" /\ notified'[i].state /= "pending") =>
                /\ registry' = registry
                /\ Len(notified') = Len(notified)
                /\ \A j \in 1..Len(notified) : j /= i => notified'[j] = notified[j]
       /\ (registry.pc = "none" /\ registry'.res = "OK") =>
            /\ Len(notified') = Len(registry'.data)
            /\ \A i \in 1..Len(notified') : notified'[i].state = "pending"]_vars

\* the handler has answered OK for a batch of valid pushes; the send of the
\* first prompt has failed, the send of the last one has succeeded
C12_Witness ==
    /\ registry.pc = "end" /\ registry.res = "OK"
    /\ Len(notified) = MaxEvents
    /\ notified[1].state = "failed"
    /\ notified[MaxEvents].state = "sent"

\* ===== properties of the deploy command's encoding =====

\* C11: the payload do_deploy decodes from the text that line 259 encodes
\* for a tag has the command deploy and exactly that tag, for every string
\* (the empty one, with quotes, backslashes, separators, control and
\* non-ASCII characters).
C11_RoundTrip ==
    codec.pc = "decoded" =>
        /\ codec.payload.command = DEPLOY_VALUE
        /\ codec.payload.tag = codec.tag

\* a tag made of a backslash, the letter n and a quote has been encoded
\* (each of the two special characters escaped) and decoded
C11_Witness ==
    /\ codec.pc = "decoded"
    /\ codec.tag = << BACKSLASH, "n", QUOTE >>
    /\ Len(codec.text) = Len(StringifyChars(<< "a", "n", "a" >>)) + 2
    /\ codec.payload.tag = codec.tag

====
